---- MODULE Spec2Model ----
(***************************************************************************)
(* Model of mask_ai.py: the boundary expansion (edit_boundaries), the      *)
(* polyline registry and its materialisation (define_polylines), the two   *)
(* renderers (draw_landmarks, draw_polylines) and the batch loop of main.  *)
(*                                                                         *)
(* Conventions.                                                            *)
(*  - A Python string is a sequence of one-character strings, so that      *)
(*    slicing, endswith and concatenation are computed, not assumed.       *)
(*  - A Python tuple or list is a sequence; Python index k is TLA+ index   *)
(*    k + 1.                                                               *)
(*  - A numpy array is a reference [buf, region] into a heap of buffers:   *)
(*    a slice is a view of the same buffer, copy.copy allocates a buffer.  *)
(*    The pixels of a buffer are abstracted to the sequence of cv2 drawing *)
(*    calls applied to it since it was loaded.                             *)
(*  - faces_detect and landmarks_predictor are external and deterministic: *)
(*    what they answer for an image is chosen when the image is loaded.    *)
(***************************************************************************)
EXTENDS Integers, Sequences, FiniteSets, TLC

VARIABLES
    dir,            \* os.listdir(...): the file names, in listing order
    fi,             \* position of the for-loop over dir (1-based, next to take)
    filename,       \* loop variable of line 192
    pc,             \* position in main / in the function under test
    exc,            \* the exception that ended the run, "none" if none
    scene,          \* what the external detector answers for the loaded image
    img,            \* reference to the loaded image
    faces_rect,     \* first-pass detections, tuples (left, top, right, bottom)
    idx, ci, ki,    \* loop variables: face index, colour index, key index
    boundaries,     \* rect_to_tuple(face_rect)
    img_shape,      \* img.shape = (row_count, col_count, num_channels)
    bound_edit,     \* edit_boundaries(boundaries, img.shape)
    face_img,       \* the crop: a view into img
    face_rect_edit, \* second-pass detections on the crop
    landmarks,      \* full_object_detection: [parts |-> 68 points]
    face_polyline_segment, \* second argument of define_polylines
    polylines,      \* result of define_polylines
    heap,           \* the image buffers
    img_lined, img_dotted, \* references returned by the renderers
    call,           \* the last renderer call: argument, its pixels before, result
    written,        \* the cv2.imwrite calls so far, in order
    log             \* the logging.info lines so far, in order

vars == <<dir, fi, filename, pc, exc, scene, img, faces_rect, idx, ci, ki,
          boundaries, img_shape, bound_edit, face_img, face_rect_edit,
          landmarks, face_polyline_segment, polylines, heap, img_lined,
          img_dotted, call, written, log>>

(***************************************************************************)
(* Bounds of the model.                                                    *)
(***************************************************************************)
MaxFiles == 2
MaxFaces == 2
MaxDim == 4
MaxSegs == 2
MaxSegLen == 2
NumLandmarkSets == 3

(***************************************************************************)
(* Python primitives.                                                      *)
(***************************************************************************)
Max(a, b) == IF a >= b THEN a ELSE b
Min(a, b) == IF a <= b THEN a ELSE b

\* range(a, b) as a list
py_range(a, b) == [i \in 1..(b - a) |-> a + i - 1]

\* round(pct/100 * n) of Python 3: the float product is exact for .50 and .75
\* (both are binary fractions), and round() rounds a tie to the even integer.
py_round(pct, n) ==
    LET num == pct * n
        q == num \div 100
        r == num % 100
    IN  IF 2 * r < 100 THEN q
        ELSE IF 2 * r > 100 THEN q + 1
        ELSE IF q % 2 = 0 THEN q ELSE q + 1

Digits == <<"0", "1", "2", "3", "4", "5", "6", "7", "8", "9">>

\* str(n) for an int n >= 0
RECURSIVE str_int(_)
str_int(n) == IF n < 10 THEN <<Digits[n + 1]>>
              ELSE str_int(n \div 10) \o <<Digits[(n % 10) + 1]>>

\* str(t) for a 3-tuple of ints: "(a, b, c)"
str_tuple(t) == <<"(">> \o str_int(t[1]) \o <<",", " ">> \o str_int(t[2])
                \o <<",", " ">> \o str_int(t[3]) \o <<")">>

\* s.endswith(suffix)
endswith(s, suffix) ==
    /\ Len(s) >= Len(suffix)
    /\ SubSeq(s, Len(s) - Len(suffix) + 1, Len(s)) = suffix

\* filename.endswith(('jpg', 'JPG'))
is_jpg(s) == endswith(s, <<"j", "p", "g">>) \/ endswith(s, <<"J", "P", "G">>)

\* s[:-4]
drop_last4(s) == SubSeq(s, 1, Len(s) - 4)

(***************************************************************************)
(* Module-level constants of mask_ai.py.                                   *)
(***************************************************************************)
\* face_polyline_segments['full']
full_segments ==
    << <<27, 22, 21, 20, 19, 18, 17, 0, 1, 2, 3, 4, 5, 6, 7, 8, 9, 10, 11,
         12, 13, 14, 15, 16, 26, 25, 24, 23, 22>>,
       <<0, 36, 17, 37, 18, 38, 20>>, <<38, 19>>,
       <<21, 38, 37, 36, 41, 40, 39, 38>>,
       <<39, 27, 31, 40, 1, 31, 3, 48, 5, 58, 59, 48, 31, 39>>,
       <<21, 27, 28, 29, 30, 33, 32, 31, 51, 50, 49, 48>>, <<31, 30, 35>>,
       <<60, 61, 62, 63, 64, 65, 66, 67, 60>>,
       <<8, 58, 57, 56, 8>>,
       <<56, 55, 54, 53, 52, 51>>,
       <<51, 33, 34, 35, 51>>, <<35, 54>>,
       <<56, 11, 54, 13, 35, 15, 47, 35, 42, 27, 35>>,
       <<42, 47, 46, 45, 44, 43, 42>>,
       <<16, 45, 26, 44, 25, 43, 24>>, <<22, 43, 23>> >>

\* face_polyline_segments['partial']
partial_segments ==
    << py_range(0, 17),
       <<8, 48, 31, 30, 35, 54, 8>>,
       py_range(60, 68), <<67, 60>>,
       py_range(17, 27), <<0, 17>>, <<16, 26>>,
       <<31, 39, 21>>, <<35, 42, 22>> >>

\* the registry with the last line of 'full' (two segments) left out
face_polyline_segments_short ==
    [full |-> SubSeq(full_segments, 1, Len(full_segments) - 2),
     partial |-> partial_segments]

face_polyline_segments == [full |-> full_segments, partial |-> partial_segments]

\* face_polyline_segments.keys(), in insertion order
polyline_keys == <<"full", "partial">>

\* the key as a Python string
key_chars(k) == IF k = "full" THEN <<"f", "u", "l", "l">>
                ELSE <<"p", "a", "r", "t", "i", "a", "l">>

colors_bgr == << <<255, 0, 255>>, <<0, 255, 255>>, <<255, 0, 0>> >>

line_thickness == 3
dot_thickness == 15

(***************************************************************************)
(* edit_boundaries.                                                        *)
(***************************************************************************)
\* the same without the clamp to the image
edit_boundaries_noclamp(b, shape) ==
    LET length == b[4] - b[2]
        width == b[3] - b[1]
    IN  << b[1] - py_round(50, width), b[2] - py_round(75, length),
           b[3] + py_round(50, width), b[4] + py_round(50, length) >>

\* the same with right and bottom clamped to the wrong axis of img_shape
edit_boundaries_swapdim(b, shape) ==
    LET length == b[4] - b[2]
        width == b[3] - b[1]
        e1 == b[1] - py_round(50, width)
        e2 == b[2] - py_round(75, length)
        e3 == b[3] + py_round(50, width)
        e4 == b[4] + py_round(50, length)
    IN  << Max(e1, 0), Max(e2, 0), Min(e3, shape[1]), Min(e4, shape[2]) >>

edit_boundaries(b, shape) ==
    LET length == b[4] - b[2]
        width == b[3] - b[1]
        e1 == b[1] - py_round(50, width)
        e2 == b[2] - py_round(75, length)
        e3 == b[3] + py_round(50, width)
        e4 == b[4] + py_round(50, length)
    IN  << Max(e1, 0), Max(e2, 0), Min(e3, shape[2]), Min(e4, shape[1]) >>

(***************************************************************************)
(* define_polylines.                                                       *)
(***************************************************************************)
\* [(p.x, p.y) for p in landmarks.parts()]
coors_of(lm) == [i \in 1..Len(lm.parts) |-> <<lm.parts[i].x, lm.parts[i].y>>]

\* np.reshape(rows, (-1, 2)) of a list of pairs: the values in row-major
\* order, regrouped two by two
np_reshape_pairs(rows) ==
    LET flat == [j \in 1..(2 * Len(rows)) |-> rows[(j + 1) \div 2][((j - 1) % 2) + 1]]
    IN  [i \in 1..(Len(flat) \div 2) |-> <<flat[2 * i - 1], flat[2 * i]>>]

\* a segment's indices with the repeated ones dropped
RECURSIVE dedup(_)
dedup(seg) ==
    IF seg = <<>> THEN <<>>
    ELSE LET front == dedup(SubSeq(seg, 1, Len(seg) - 1))
             last == seg[Len(seg)]
         IN  IF \E k \in 1..Len(front) : front[k] = last THEN front
             ELSE Append(front, last)

\* the same, visiting each landmark of a segment only once
define_polylines_dedup(lm, segs) ==
    LET coors == coors_of(lm)
    IN  [s \in 1..Len(segs) |->
            np_reshape_pairs([k \in 1..Len(dedup(segs[s])) |->
                                coors[dedup(segs[s])[k] + 1]])]

define_polylines(lm, segs) ==
    LET coors == coors_of(lm)
    IN  [s \in 1..Len(segs) |->
            np_reshape_pairs([k \in 1..Len(segs[s]) |-> coors[segs[s][k] + 1]])]

(***************************************************************************)
(* Image buffers and the renderers.                                        *)
(***************************************************************************)
NoRef == [buf |-> 0, region |-> <<0, 0, 0, 0>>]

\* the shape of the array a reference denotes
shape_of(ref) == << Max(ref.region[4] - ref.region[2], 0),
                    Max(ref.region[3] - ref.region[1], 0), 3 >>

\* what the array holds: its shape and the drawing calls applied to its buffer
pixels(h, ref) == [shape |-> shape_of(ref), ops |-> h[ref.buf].ops]

NoPixels == [shape |-> <<0, 0, 3>>, ops |-> <<>>]

\* img[top:bottom, left:right]: a view of the same buffer
slice(ref, box) ==
    [buf |-> ref.buf,
     region |-> << ref.region[1] + box[1], ref.region[2] + box[2],
                   ref.region[1] + box[3], ref.region[2] + box[4] >>]

\* copy.copy handing back its argument
copy_copy_alias(h, ref) == [heap |-> h, ref |-> ref]

\* copy.copy(array): a new buffer holding the array's pixels
copy_copy(h, ref) ==
    [heap |-> Append(h, [shape |-> shape_of(ref), ops |-> h[ref.buf].ops]),
     ref |-> [buf |-> Len(h) + 1,
              region |-> <<0, 0, shape_of(ref)[2], shape_of(ref)[1]>>]]

\* one cv2 drawing call on the buffer behind ref
DrawOp(kind, ref, pts, colors, thickness) ==
    [op |-> kind, at |-> ref.region, pts |-> pts, colors |-> colors,
     thickness |-> thickness]

\* draws one circle per landmark into face_img itself and returns face_img
draw_landmarks(h, ref, lm, colors, thickness) ==
    LET coors == coors_of(lm)
        circles == [i \in 1..Len(coors) |->
                       DrawOp("circle", ref, <<coors[i]>>, colors, thickness)]
    IN  [heap |-> [h EXCEPT ![ref.buf].ops = @ \o circles], ref |-> ref]

\* cv2.polylines draws into face_img itself and returns it
draw_polylines(h, ref, pls, colors, thickness) ==
    [heap |-> [h EXCEPT ![ref.buf].ops =
                   Append(@, DrawOp("polylines", ref, pls, colors, thickness))],
     ref |-> ref]

(***************************************************************************)
(* The external collaborators and the directory.                           *)
(***************************************************************************)
\* the file names a directory may hold: "a.jpg", "a.JPG", "b.jpg", "a.png"
FileNames == { <<"a", ".", "j", "p", "g">>, <<"a", ".", "J", "P", "G">>,
               <<"b", ".", "j", "p", "g">>, <<"a", ".", "p", "n", "g">> }

\* the listings: up to MaxFiles distinct names, in any order
Dirs == { d \in UNION { [1..n -> FileNames] : n \in 0..MaxFiles } :
            \A i, j \in 1..Len(d) : i # j => d[i] # d[j] }

\* img.shape of the images of the batch
SceneShape == <<10, 12, 3>>

\* the k-th rectangle the detector finds in an image
FaceBox(k) == <<k, k + 1, k + 4, k + 5>>

\* what the detector answers for one image: the rectangles of the first pass,
\* and for each of them whether the pass over its crop finds a face
Scenes ==
    UNION { { [shape |-> SceneShape, faces |-> [k \in 1..n |-> FaceBox(k)], crop_hit |-> h] :
                h \in [1..n -> BOOLEAN] } : n \in 0..MaxFaces }

NoScene == [shape |-> <<0, 0, 3>>, faces |-> <<>>, crop_hit |-> <<>>]

\* cv2.imread: a fresh buffer, nothing drawn on it
load_img(sc) == [heap |-> << [shape |-> sc.shape, ops |-> <<>>] >>,
                 ref |-> [buf |-> 1, region |-> <<0, 0, sc.shape[2], sc.shape[1]>>]]

\* faces_detect(img) on the whole image
faces_detect_full(sc) == sc.faces

\* faces_detect(face_img) on the crop of face i: the face's rectangle in the
\* crop's coordinates when the detector finds it there, nothing otherwise
faces_detect_crop(sc, i, ref) ==
    IF sc.crop_hit[i + 1]
    THEN << << sc.faces[i + 1][1] - ref.region[1], sc.faces[i + 1][2] - ref.region[2],
               sc.faces[i + 1][3] - ref.region[1], sc.faces[i + 1][4] - ref.region[2] >> >>
    ELSE <<>>

\* (face.left(), face.top(), face.right(), face.bottom())
rect_to_tuple(face) == <<face[1], face[2], face[3], face[4]>>

\* landmarks_predictor(img, face_rect): 68 points, laid out in the rectangle
get_landmarks(ref, face_rect) ==
    [parts |-> [i \in 1..68 |-> [x |-> face_rect[1] + ((i - 1) % 9),
                                 y |-> face_rect[2] + ((i - 1) \div 9)]]]

(***************************************************************************)
(* main.                                                                   *)
(***************************************************************************)
\* filename[:-4] + '_' + key + '_' [+ 'dots' + '_'] + str(colors) + '_' + str(idx) + '.jpg'
\* under <dir>/faces/
out_path(f, key, dots, colors, i) ==
    <<"f", "a", "c", "e", "s", "/">> \o drop_last4(f) \o <<"_">> \o key_chars(key) \o <<"_">>
    \o (IF dots THEN <<"d", "o", "t", "s", "_">> ELSE <<>>)
    \o str_tuple(colors) \o <<"_">> \o str_int(i) \o <<".", "j", "p", "g">>

\* cv2.imwrite(path, image), with the unit that wrote it
imwrite(w, path, px, unit) == Append(w, [path |-> path, px |-> px, unit |-> unit])

\* the dot overlay written for every key
writes_dots_always(key) == TRUE

\* if polyline_key == 'full'
writes_dots(key) == key = "full"

\* the three nested for-loops: where main goes after the unit (i, c, k)
next_unit(n, i, c, k) ==
    IF k < Len(polyline_keys) THEN [pc |-> "unit", idx |-> i, ci |-> c, ki |-> k + 1]
    ELSE IF c < Len(colors_bgr) THEN [pc |-> "unit", idx |-> i, ci |-> c + 1, ki |-> 1]
    ELSE IF i + 1 < n THEN [pc |-> "unit", idx |-> i + 1, ci |-> 1, ki |-> 1]
    ELSE [pc |-> "for_file", idx |-> i, ci |-> c, ki |-> k]

NoCall == [fn |-> "none", arg |-> NoRef, before |-> NoPixels, ret |-> NoRef]
NoLandmarks == [parts |-> <<>>]

cropVars == <<boundaries, bound_edit, face_img, face_rect_edit, landmarks,
              face_polyline_segment, polylines>>
renderVars == <<img_lined, img_dotted, call>>
unitVars == <<cropVars, renderVars>>
loopVars == <<idx, ci, ki>>
imgVars == <<scene, img, img_shape, faces_rect, heap>>

InitMain ==
    /\ dir \in Dirs
    /\ fi = 1
    /\ filename = <<>>
    /\ pc = "for_file"
    /\ exc = "none"
    /\ scene = NoScene
    /\ img = NoRef
    /\ faces_rect = <<>>
    /\ idx = 0 /\ ci = 1 /\ ki = 1
    /\ boundaries = <<0, 0, 0, 0>>
    /\ img_shape = <<0, 0, 3>>
    /\ bound_edit = <<0, 0, 0, 0>>
    /\ face_img = NoRef
    /\ face_rect_edit = <<>>
    /\ landmarks = NoLandmarks
    /\ face_polyline_segment = <<>>
    /\ polylines = <<>>
    /\ heap = <<>>
    /\ img_lined = NoRef /\ img_dotted = NoRef
    /\ call = NoCall
    /\ written = <<>>
    /\ log = <<>>

\* lines 192-198 with the first face taken before the test of line 197
NextFile_eager ==
    /\ pc = "for_file"
    /\ fi <= Len(dir)
    /\ filename' = dir[fi]
    /\ fi' = fi + 1
    /\ UNCHANGED <<dir, cropVars, written, loopVars>>
    /\ IF ~is_jpg(dir[fi])
       THEN UNCHANGED <<pc, exc, imgVars, renderVars, log>>
       ELSE \E sc \in Scenes :
              /\ img_lined' = NoRef /\ img_dotted' = NoRef /\ call' = NoCall
              /\ log' = Append(log, [kind |-> "processing", a |-> dir[fi], b |-> <<>>])
              /\ scene' = sc
              /\ heap' = load_img(sc).heap
              /\ img' = load_img(sc).ref
              /\ img_shape' = sc.shape
              /\ faces_rect' = faces_detect_full(sc)
              /\ IF Len(faces_rect') > 0
                 THEN pc' = "unit" /\ exc' = exc
                 ELSE pc' = "crashed" /\ exc' = "IndexError"

\* lines 192-198: the next file of the listing; a jpg is logged, loaded and
\* searched for faces, and the loops over its faces start if there are any
NextFile ==
    /\ pc = "for_file"
    /\ fi <= Len(dir)
    /\ filename' = dir[fi]
    /\ fi' = fi + 1
    /\ UNCHANGED <<dir, exc, cropVars, written>>
    /\ IF ~is_jpg(dir[fi])
       THEN UNCHANGED <<pc, imgVars, loopVars, renderVars, log>>
       ELSE \E sc \in Scenes :
              \* the renderings of the previous image are not read again
              /\ img_lined' = NoRef /\ img_dotted' = NoRef /\ call' = NoCall
              /\ log' = Append(log, [kind |-> "processing", a |-> dir[fi], b |-> <<>>])
              /\ scene' = sc
              /\ heap' = load_img(sc).heap
              /\ img' = load_img(sc).ref
              /\ img_shape' = sc.shape
              /\ faces_rect' = faces_detect_full(sc)
              /\ IF Len(faces_rect') > 0
                 THEN pc' = "unit" /\ idx' = 0 /\ ci' = 1 /\ ki' = 1
                 ELSE pc' = "for_file" /\ UNCHANGED loopVars

\* line 192: the listing is exhausted, main returns
Finish ==
    /\ pc = "for_file"
    /\ fi > Len(dir)
    /\ pc' = "done"
    /\ UNCHANGED <<dir, fi, filename, exc, imgVars, loopVars, unitVars, written, log>>

\* lines 201-204: log the unit, expand the rectangle, crop
Crop ==
    /\ pc = "unit"
    /\ log' = Append(log, [kind |-> "lines", a |-> filename,
                           b |-> key_chars(polyline_keys[ki])])
    /\ boundaries' = rect_to_tuple(faces_rect[idx + 1])
    /\ bound_edit' = edit_boundaries(boundaries', img_shape)
    /\ face_img' = slice(img, bound_edit')
    \* the renderings of the previous unit are not read again: dropped here
    /\ heap' = <<heap[img.buf]>>
    /\ img_lined' = NoRef /\ img_dotted' = NoRef /\ call' = NoCall
    /\ pc' = "second"
    /\ UNCHANGED <<dir, fi, filename, exc, scene, img, img_shape, faces_rect, loopVars,
                   face_rect_edit, landmarks, face_polyline_segment, polylines, written>>

\* lines 206-207: detect again on the crop and take the first rectangle
SecondPass ==
    /\ pc = "second"
    /\ face_rect_edit' = faces_detect_crop(scene, idx, face_img)
    /\ IF Len(face_rect_edit') = 0
       THEN /\ exc' = "IndexError"     \* face_rect_edit[0] of an empty result
            /\ pc' = "crashed"
            /\ UNCHANGED landmarks
       ELSE /\ landmarks' = get_landmarks(face_img, face_rect_edit'[1])
            /\ pc' = "lines"
            /\ UNCHANGED exc
    /\ UNCHANGED <<dir, fi, filename, imgVars, loopVars, boundaries, bound_edit, face_img,
                   face_polyline_segment, polylines, img_lined, img_dotted, call,
                   written, log>>

\* lines 208-214: materialise, draw the polylines on a copy, write it
Lines ==
    /\ pc = "lines"
    /\ face_polyline_segment' = face_polyline_segments[polyline_keys[ki]]
    /\ polylines' = define_polylines(landmarks, face_polyline_segment')
    /\ LET cp == copy_copy(heap, face_img)
           d == draw_polylines(cp.heap, cp.ref, polylines', colors_bgr[ci], line_thickness)
           nx == next_unit(Len(faces_rect), idx, ci, ki)
       IN  /\ heap' = d.heap
           /\ img_lined' = d.ref
           /\ call' = [fn |-> "draw_polylines", arg |-> cp.ref,
                       before |-> pixels(cp.heap, cp.ref), ret |-> d.ref]
           /\ written' = imwrite(written,
                                 out_path(filename, polyline_keys[ki], FALSE, colors_bgr[ci], idx),
                                 pixels(d.heap, d.ref),
                                 <<filename, idx, colors_bgr[ci], polyline_keys[ki], FALSE>>)
           /\ IF writes_dots(polyline_keys[ki])
              THEN pc' = "dots" /\ UNCHANGED loopVars
              ELSE pc' = nx.pc /\ idx' = nx.idx /\ ci' = nx.ci /\ ki' = nx.ki
    /\ UNCHANGED <<dir, fi, filename, exc, scene, img, img_shape, faces_rect, boundaries,
                   bound_edit, face_img, face_rect_edit, landmarks, img_dotted, log>>

\* lines 215-217: draw the landmarks on another copy, write it
Dots ==
    /\ pc = "dots"
    /\ LET cp == copy_copy(heap, face_img)
           d == draw_landmarks(cp.heap, cp.ref, landmarks, colors_bgr[ci], dot_thickness)
           nx == next_unit(Len(faces_rect), idx, ci, ki)
       IN  /\ heap' = d.heap
           /\ img_dotted' = d.ref
           /\ call' = [fn |-> "draw_landmarks", arg |-> cp.ref,
                       before |-> pixels(cp.heap, cp.ref), ret |-> d.ref]
           /\ written' = imwrite(written,
                                 out_path(filename, polyline_keys[ki], TRUE, colors_bgr[ci], idx),
                                 pixels(d.heap, d.ref),
                                 <<filename, idx, colors_bgr[ci], polyline_keys[ki], TRUE>>)
           /\ pc' = nx.pc /\ idx' = nx.idx /\ ci' = nx.ci /\ ki' = nx.ki
    /\ UNCHANGED <<dir, fi, filename, exc, scene, img, img_shape, faces_rect, boundaries,
                   bound_edit, face_img, face_rect_edit, landmarks, face_polyline_segment,
                   polylines, img_lined, log>>

Next == NextFile \/ Finish \/ Crop \/ SecondPass \/ Lines \/ Dots

Spec == InitMain /\ [][Next]_vars

(***************************************************************************)
(* edit_boundaries on its own: every shape up to MaxDim x MaxDim with      *)
(* every rectangle around it, and the 200 x 200 scenario.                  *)
(***************************************************************************)
EBCoords == (0 - 1)..(MaxDim + 1)

EBInputs ==
    { <<sh, b>> : sh \in { <<r, c, 3>> : r \in 1..MaxDim, c \in 1..MaxDim },
                  b \in { <<l, t, r, bt>> : l \in EBCoords, t \in EBCoords,
                                            r \in EBCoords, bt \in EBCoords } }
    \cup { << <<200, 200, 3>>, <<50, 50, 150, 150>> >> }

InitEB ==
    /\ \E inp \in EBInputs : img_shape = inp[1] /\ boundaries = inp[2]
    /\ pc = "eb_call"
    /\ dir = <<>> /\ fi = 1 /\ filename = <<>> /\ exc = "none"
    /\ scene = NoScene /\ img = NoRef /\ faces_rect = <<>>
    /\ idx = 0 /\ ci = 1 /\ ki = 1
    /\ bound_edit = <<0, 0, 0, 0>>
    /\ face_img = NoRef /\ face_rect_edit = <<>>
    /\ landmarks = NoLandmarks /\ face_polyline_segment = <<>> /\ polylines = <<>>
    /\ heap = <<>> /\ img_lined = NoRef /\ img_dotted = NoRef /\ call = NoCall
    /\ written = <<>> /\ log = <<>>

\* bound_edit = edit_boundaries(boundaries, img.shape); the function has no raise
CallEditBoundaries ==
    /\ pc = "eb_call"
    /\ bound_edit' = edit_boundaries(boundaries, img_shape)
    /\ pc' = "eb_return"
    /\ UNCHANGED <<dir, fi, filename, exc, imgVars, loopVars, boundaries, face_img,
                   face_rect_edit, landmarks, face_polyline_segment, polylines,
                   img_lined, img_dotted, call, written, log>>

NextEB == CallEditBoundaries

SpecEB == InitEB /\ [][NextEB]_vars

(***************************************************************************)
(* define_polylines on its own: NumLandmarkSets landmark sets, every list  *)
(* of up to MaxSegs segments of up to MaxSegLen indices, and the two       *)
(* registered topologies.                                                  *)
(***************************************************************************)
\* 68 points, all distinct
LandmarkSet(v) ==
    [parts |-> [i \in 1..68 |-> [x |-> i - 1 + v, y |-> (v * (i - 1)) % 5]]]

\* the indices the generated segments draw from: both ends and the middle
IdxSample == {0, 33, 67}

SegmentsUpTo(n) == UNION { [1..m -> IdxSample] : m \in 0..n }

SegListsUpTo(n) == UNION { [1..m -> SegmentsUpTo(MaxSegLen)] : m \in 0..n }

InitDP ==
    /\ landmarks \in { LandmarkSet(v) : v \in 1..NumLandmarkSets }
    /\ face_polyline_segment \in SegListsUpTo(MaxSegs) \cup {full_segments, partial_segments}
    /\ pc = "dp_call"
    /\ dir = <<>> /\ fi = 1 /\ filename = <<>> /\ exc = "none"
    /\ scene = NoScene /\ img = NoRef /\ faces_rect = <<>>
    /\ idx = 0 /\ ci = 1 /\ ki = 1
    /\ boundaries = <<0, 0, 0, 0>> /\ img_shape = <<0, 0, 3>>
    /\ bound_edit = <<0, 0, 0, 0>>
    /\ face_img = NoRef /\ face_rect_edit = <<>>
    /\ polylines = <<>>
    /\ heap = <<>> /\ img_lined = NoRef /\ img_dotted = NoRef /\ call = NoCall
    /\ written = <<>> /\ log = <<>>

\* polylines = define_polylines(landmarks, face_polyline_segment)
CallDefinePolylines ==
    /\ pc = "dp_call"
    /\ polylines' = define_polylines(landmarks, face_polyline_segment)
    /\ pc' = "dp_return"
    /\ UNCHANGED <<dir, fi, filename, exc, imgVars, loopVars, boundaries, bound_edit,
                   face_img, face_rect_edit, landmarks, face_polyline_segment,
                   img_lined, img_dotted, call, written, log>>

NextDP == CallDefinePolylines

SpecDP == InitDP /\ [][NextDP]_vars

(***************************************************************************)
(* Reading the outputs.                                                    *)
(***************************************************************************)
\* the polylines drawn by the cv2.polylines calls of a sequence of drawing calls
IsPolylinesOp(o) == o.op = "polylines"

RECURSIVE sum_pts(_)
sum_pts(ops) == IF ops = <<>> THEN 0 ELSE Len(ops[1].pts) + sum_pts(Tail(ops))

polyline_count(ops) == sum_pts(SelectSeq(ops, IsPolylinesOp))

\* the cv2.circle calls of a sequence of drawing calls
dot_count(ops) == Cardinality({ i \in 1..Len(ops) : ops[i].op = "circle" })

\* fields of the unit that wrote an output
unit_file(w) == w.unit[1]
unit_idx(w) == w.unit[2]
unit_colors(w) == w.unit[3]
unit_key(w) == w.unit[4]
unit_dots(w) == w.unit[5]

Degenerate(box) == box[3] <= box[1] \/ box[4] <= box[2]

(***************************************************************************)
(* C1. A second pass that finds no face in the crop skips that unit only   *)
(* and logs it: the step leaves no exception, does not end the run, and    *)
(* adds a log line for the skip.                                           *)
(* Fails on the code: face_rect_edit[0] raises IndexError, which nothing   *)
(* catches.                                                                *)
(***************************************************************************)
C1_SecondPassMissSkipsUnit ==
    [][ (pc = "second" /\ Len(faces_detect_crop(scene, idx, face_img)) = 0)
          => /\ exc' = "none"
             /\ pc' \in {"unit", "for_file"}
             /\ Len(log') = Len(log) + 1 ]_vars

(***************************************************************************)
(* C2. As claimed: every polyline output of the 'full' topology holds      *)
(* exactly 14 polylines.                                                   *)
(***************************************************************************)
C2_FullHas14Polylines ==
    \A i \in 1..Len(written) :
        (unit_key(written[i]) = "full" /\ ~unit_dots(written[i]))
            => polyline_count(written[i].px.ops) = 14

(***************************************************************************)
(* C2 as amended: the 'full' topology materialises to exactly 16           *)
(* polylines, all of them drawn on the polyline output and no dot on it,   *)
(* and the unit then writes exactly one dot overlay for its (file, face,   *)
(* colour), with exactly 68 dots and no polyline.                          *)
(***************************************************************************)
C2_FullHas16PolylinesAnd68Dots ==
    /\ (pc = "dots" => Len(polylines) = 16)
    /\ \A i \in 1..Len(written) :
        (unit_key(written[i]) = "full" /\ ~unit_dots(written[i]))
            => /\ polyline_count(written[i].px.ops) = 16
               /\ dot_count(written[i].px.ops) = 0
               /\ (i = Len(written) => pc = "dots")
               /\ (i < Len(written)
                     => /\ written[i + 1].unit =
                              << unit_file(written[i]), unit_idx(written[i]),
                                 unit_colors(written[i]), "full", TRUE >>
                        /\ dot_count(written[i + 1].px.ops) = 68
                        /\ polyline_count(written[i + 1].px.ops) = 0
                        /\ Cardinality({ j \in 1..Len(written) :
                                           written[j].unit = written[i + 1].unit }) = 1)

\* a 'full' unit has written both of its outputs
C2_Witness ==
    \E i \in 1..Len(written) :
        unit_key(written[i]) = "full" /\ unit_dots(written[i])

(***************************************************************************)
(* C3. The 'partial' topology materialises to exactly 9 polylines, all     *)
(* drawn on the unit's polyline output, and a dot overlay is written only  *)
(* under the key 'full': no output of a 'partial' unit is a dot overlay    *)
(* or carries a dot.                                                       *)
(***************************************************************************)
C3_PartialHas9PolylinesNoDots ==
    /\ (Len(written) > 0 /\ unit_key(written[Len(written)]) = "partial")
           => Len(polylines) = 9
    /\ \A i \in 1..Len(written) :
        /\ unit_dots(written[i]) => unit_key(written[i]) = "full"
        /\ unit_key(written[i]) = "partial"
              => /\ polyline_count(written[i].px.ops) = 9
                 /\ dot_count(written[i].px.ops) = 0

\* a 'partial' unit has written its output and the run has gone on to write more
C3_Witness ==
    \E i \in 1..Len(written) :
        unit_key(written[i]) = "partial" /\ i < Len(written)

(***************************************************************************)
(* C4. As claimed: for a 200 x 200 image and the box (50, 50, 150, 150),   *)
(* edit_boundaries returns (0, 13, 200, 200).                              *)
(***************************************************************************)
C4_Scenario1Is_0_13_200_200 ==
    (pc = "eb_return" /\ img_shape = <<200, 200, 3>> /\ boundaries = <<50, 50, 150, 150>>)
        => bound_edit = <<0, 13, 200, 200>>

(***************************************************************************)
(* C4 as amended: for a 200 x 200 image and the box (50, 50, 150, 150),    *)
(* edit_boundaries returns (0, 0, 200, 200).                               *)
(***************************************************************************)
C4_Scenario1Is_0_0_200_200 ==
    (pc = "eb_return" /\ img_shape = <<200, 200, 3>> /\ boundaries = <<50, 50, 150, 150>>)
        => bound_edit = <<0, 0, 200, 200>>

\* edit_boundaries has returned for the 200 x 200 scenario
C4_Witness ==
    pc = "eb_return" /\ img_shape = <<200, 200, 3>> /\ boundaries = <<50, 50, 150, 150>>

(***************************************************************************)
(* C5. No two outputs of one run, written for different (file, face,       *)
(* colour, topology, dot-flag) tuples, go to the same path.                *)
(* Fails on the code: filename[:-4] drops the extension, so "a.jpg" and    *)
(* "a.JPG" write to the same paths.                                        *)
(***************************************************************************)
C5_OutputPathsDistinct ==
    \A i, j \in 1..Len(written) :
        written[i].unit # written[j].unit => written[i].path # written[j].path

(***************************************************************************)
(* C6. As claimed: after draw_landmarks or draw_polylines returns, the     *)
(* buffer that was passed to it holds the pixels it held before the call.  *)
(***************************************************************************)
C6_ArgumentNotMutated ==
    call.fn # "none" => pixels(heap, call.arg) = call.before

(***************************************************************************)
(* C6 as amended: draw_landmarks and draw_polylines draw into the buffer   *)
(* passed to them and return that same buffer; main passes them            *)
(* copy.copy(face_img), a buffer of its own, so after either call the crop *)
(* face_img and the loaded image hold the pixels they held before it, and  *)
(* the overlay is in the returned copy only.                               *)
(***************************************************************************)
C6_DrawsInPlaceOnACopy ==
    call.fn # "none"
        => /\ call.ret = call.arg
           /\ pixels(heap, call.arg) # call.before
           /\ call.before = [shape |-> shape_of(face_img), ops |-> <<>>]
           /\ call.arg.buf # face_img.buf
           /\ pixels(heap, face_img) = [shape |-> shape_of(face_img), ops |-> <<>>]
           /\ heap[img.buf].ops = <<>>

\* both renderers have been called on the same crop
C6_Witness ==
    call.fn = "draw_landmarks" /\ img_lined # NoRef /\ img_dotted # NoRef

(***************************************************************************)
(* C7. A degenerate box (right <= left or bottom <= top) is never          *)
(* returned by edit_boundaries: the call fails with InvalidGeometry.       *)
(* Fails on the code: edit_boundaries has no check and returns the box.    *)
(***************************************************************************)
C7_DegenerateBoxRaises ==
    (pc = "eb_return" /\ Degenerate(bound_edit)) => exc = "InvalidGeometry"

(***************************************************************************)
(* C8. For a box with left < right and top < bottom that lies inside the   *)
(* image, the box edit_boundaries returns satisfies                        *)
(* 0 <= newLeft < newRight <= colCount, 0 <= newTop < newBottom <= rowCount*)
(***************************************************************************)
InsideImage(b, shape) ==
    /\ b[1] < b[3] /\ b[2] < b[4]
    /\ 0 <= b[1] /\ b[3] <= shape[2]
    /\ 0 <= b[2] /\ b[4] <= shape[1]

C8_ExpandedBoxInsideImage ==
    (pc = "eb_return" /\ InsideImage(boundaries, img_shape))
        => /\ 0 <= bound_edit[1] /\ bound_edit[1] < bound_edit[3]
           /\ bound_edit[3] <= img_shape[2]
           /\ 0 <= bound_edit[2] /\ bound_edit[2] < bound_edit[4]
           /\ bound_edit[4] <= img_shape[1]

\* an inside box whose expansion was cut by the image on the left and at the bottom
C8_Witness ==
    /\ pc = "eb_return" /\ InsideImage(boundaries, img_shape)
    /\ boundaries[1] - py_round(50, boundaries[3] - boundaries[1]) < 0
    /\ boundaries[4] + py_round(50, boundaries[4] - boundaries[2]) > img_shape[1]
    /\ img_shape[1] # img_shape[2]

(***************************************************************************)
(* C9. As claimed: when the first pass finds no face in an image, no       *)
(* output is written for it, a skip is logged for it, and no exception     *)
(* propagates.                                                             *)
(***************************************************************************)
ZeroFacesHandled ==
    /\ is_jpg(filename)
    /\ Len(faces_rect) = 0
    /\ Len(log) > 0 /\ log[Len(log)].a = filename

C9_ZeroFacesLogsSkip ==
    ZeroFacesHandled
        => /\ \A i \in 1..Len(written) : unit_file(written[i]) # filename
           /\ exc = "none"
           /\ \E k \in 1..Len(log) : log[k].kind = "skip" /\ log[k].a = filename

(***************************************************************************)
(* C9 as amended: when the first pass finds no face in an image, no output *)
(* is written for it and no exception propagates, main goes on to the next *)
(* file (or returns when there is none), and nothing is logged for the     *)
(* image except the 'processing' line that precedes detection: there is no *)
(* log line for the skip.                                                  *)
(***************************************************************************)
C9_ZeroFacesSkippedSilently ==
    ZeroFacesHandled
        => /\ \A i \in 1..Len(written) : unit_file(written[i]) # filename
           /\ exc = "none"
           /\ pc \in {"for_file", "done"}
           /\ (pc = "for_file" /\ fi <= Len(dir) => ENABLED NextFile)
           /\ log[Len(log)].kind = "processing"
           /\ Cardinality({ k \in 1..Len(log) : log[k].a = filename }) = 1

\* an image without faces has been passed without a stop,
\* and another file is waiting
C9_Witness ==
    ZeroFacesHandled /\ pc = "for_file" /\ fi <= Len(dir)

(***************************************************************************)
(* C10. define_polylines returns one polyline per segment, in the order of *)
(* the segments; the i-th polyline has as many points as the i-th segment  *)
(* has indices, and its k-th point is the landmark at the segment's k-th   *)
(* index.                                                                  *)
(***************************************************************************)
C10_PolylinesFollowSegments ==
    pc = "dp_return"
        => /\ Len(polylines) = Len(face_polyline_segment)
           /\ \A s \in 1..Len(face_polyline_segment) :
                /\ Len(polylines[s]) = Len(face_polyline_segment[s])
                /\ \A k \in 1..Len(face_polyline_segment[s]) :
                     polylines[s][k] =
                        << landmarks.parts[face_polyline_segment[s][k] + 1].x,
                           landmarks.parts[face_polyline_segment[s][k] + 1].y >>

\* a list of two segments, one of them visiting the same landmark twice
C10_Witness ==
    /\ pc = "dp_return"
    /\ Len(face_polyline_segment) = 2
    /\ face_polyline_segment[1] = <<67, 67>>
    /\ face_polyline_segment[2] = <<33, 0>>

====
